---- MODULE Spec2Model ----
(***************************************************************************)
(* Model of deno_doc's src/params.rs: the conversion of swc binding        *)
(* patterns into ParamDef trees (pat_to_param_def and its helpers), the    *)
(* Display rendering of ParamDef / ObjectPatPropDef, the serde             *)
(* tagged-union form of both enums, and prop_name_to_string.               *)
(*                                                                         *)
(* Strings are sequences of one-character strings, so that concatenation,  *)
(* substrings and containment are computed and not assumed.                *)
(***************************************************************************)
EXTENDS Naturals, Sequences, FiniteSets, TLC

VARIABLES
  pc,             \* position of the caller: which operation has run last
  pat,            \* the binding pattern handed to the converter, or None
  name_arg,       \* the property key handed to prop_name_to_string, or None
  parsed_source,  \* the Option<&ParsedSource> passed with the call
  def,            \* the ParamDef returned (Panic: the call unwound)
  rendered,       \* format!("{}", def)
  doc,            \* the serialized form of def
  def2,           \* the ParamDef deserialized from doc
  name_str        \* the String returned by prop_name_to_string

vars == <<pc, pat, name_arg, parsed_source, def, rendered, doc, def2, name_str>>

-----------------------------------------------------------------------------
(* Bounds of the explored input space.                                     *)

\* Largest number of syntax nodes (patterns, holes, object properties) of an
\* exhaustively enumerated input pattern.
MaxNodes == 3

\* Largest value of a numeric / big-integer literal key.
MaxNum == 11

-----------------------------------------------------------------------------
(* Option<T>, and the outcome of a panic.                                  *)

\* Rust's None.  Some(x) is modelled by x itself: every x used here is a
\* record with a "kind" field different from "None".
None == [kind |-> "None"]

IsSome(x) == x.kind # "None"

\* The outcome of unreachable!(): the call unwinds and returns no value.
Panic == [kind |-> "Panic"]

IsPanic(x) == x.kind = "Panic"

\* A Rust String, wrapped so that an Option<String> has a "kind".
SomeString(s) == [kind |-> "String", chars |-> s]

-----------------------------------------------------------------------------
(* Collaborators outside params.rs.                                        *)

\* The loaded source text (ParsedSource::source()).
SourceText ==
  <<"{", "[", "1", "+", "1", "]", ":", "a", ",", "[", "k", "]", ":", "b", "}">>

SomeSource == [kind |-> "ParsedSource", text |-> SourceText]

Sources == {None, SomeSource}

\* SourceTextInfo::span_text: the text between the byte positions lo
\* (inclusive) and hi (exclusive), positions counted from 0.
span_text(text, span) == SubSeq(text, span.lo + 1, span.hi)

\* Type annotations of the syntax tree, and their conversion by
\* crate::ts_type::ts_type_ann_to_def into an opaque, printable TsTypeDef.
TypeAnns == {[kind |-> "TsTypeAnn", type_name |-> <<"T">>]}

ts_type_ann_to_def(rt) == [kind |-> "TsTypeDef", repr |-> rt.type_name]

\* Display of a TsTypeDef.
ts_type_fmt(t) == t.repr

\* crate::display::display_optional
display_optional(optional) == IF optional THEN <<"?">> ELSE <<>>

\* crate::display::SliceDisplayer::new(items, sep, false), given the
\* renderings of the items: the items joined by the separator.
RECURSIVE SliceDisplayer(_, _)
SliceDisplayer(items, sep) ==
  IF Len(items) = 0 THEN <<>>
  ELSE IF Len(items) = 1 THEN items[1]
  ELSE items[1] \o sep \o SliceDisplayer(Tail(items), sep)

\* Option::map over the type annotation, as every *_to_param_def does.
map_ts_type(type_ann) ==
  IF IsSome(type_ann) THEN ts_type_ann_to_def(type_ann) ELSE None

-----------------------------------------------------------------------------
(* The input space: swc syntax trees.                                      *)

Names == {<<"a">>, <<"b">>}

\* Default-value expressions (the `right` of an AssignPat, the `value` of a
\* shorthand property).
DefaultExpr == [kind |-> "Expr", text |-> <<"f", "(", ")">>]

\* Decimal digits of a natural number: the host numeric-to-text conversion
\* (f64::to_string / BigInt::to_string) on the integral values explored.
Digit(d) == CASE d = 0 -> "0" [] d = 1 -> "1" [] d = 2 -> "2" [] d = 3 -> "3"
              [] d = 4 -> "4" [] d = 5 -> "5" [] d = 6 -> "6" [] d = 7 -> "7"
              [] d = 8 -> "8" [] d = 9 -> "9"

RECURSIVE to_string(_)
to_string(n) ==
  IF n < 10 THEN <<Digit(n)>> ELSE to_string(n \div 10) \o <<Digit(n % 10)>>

\* The computed keys the parser produces for SourceText: the node's span
\* runs from the opening `[` through the closing `]` (swc's
\* ComputedPropName), the expression's span covers what is between them.
ComputedKeys ==
  { [kind |-> "Computed",
     span |-> [lo |-> l, hi |-> h],
     expr |-> [span |-> [lo |-> l + 1, hi |-> h - 1]]] :
    <<l, h>> \in { lh \in (0 .. Len(SourceText)) \X (0 .. Len(SourceText)) :
                   /\ lh[1] + 1 < lh[2]
                   /\ SourceText[lh[1] + 1] = "["
                   /\ SourceText[lh[2]] = "]"
                   /\ \A i \in (lh[1] + 1) .. (lh[2] - 1) :
                        SourceText[i] # "]" } }

\* PropName: every kind of property key.
PropNames ==
  { [kind |-> "Ident", sym |-> s] : s \in Names }
    \cup { [kind |-> "Str", value |-> s] : s \in Names \cup {<<"x", "-", "y">>, <<>>} }
    \cup { [kind |-> "Num", value |-> n] : n \in 0 .. MaxNum }
    \cup { [kind |-> "BigInt", value |-> n] : n \in 0 .. MaxNum }
    \cup ComputedKeys

\* The keys used inside the enumerated object patterns.
TreeKeys == { [kind |-> "Ident", sym |-> <<"a">>] } \cup ComputedKeys

Ident(sym, optional, type_ann) ==
  [kind |-> "Ident", id |-> [sym |-> sym, optional |-> optional],
   type_ann |-> type_ann]

ArrayPat(elems, optional, type_ann) ==
  [kind |-> "Array", elems |-> elems, optional |-> optional,
   type_ann |-> type_ann]

RestPat(arg, type_ann) == [kind |-> "Rest", arg |-> arg, type_ann |-> type_ann]

ObjectPat(props, optional, type_ann) ==
  [kind |-> "Object", props |-> props, optional |-> optional,
   type_ann |-> type_ann]

AssignPat(left, right, type_ann) ==
  [kind |-> "Assign", left |-> left, right |-> right, type_ann |-> type_ann]

\* A pattern kind pat_to_param_def has no arm for (Pat::Expr, Pat::Invalid).
ExprPat == [kind |-> "Expr"]

AssignPatProp(key, value) == [kind |-> "Assign", key |-> [sym |-> key], value |-> value]

KeyValuePatProp(key, value) == [kind |-> "KeyValue", key |-> key, value |-> value]

RestPatProp(arg) == [kind |-> "Rest", arg |-> arg]

OptTypeAnns == {None} \cup TypeAnns

\* The set S, held in enumerated form.
Enumerated(S) == IF Cardinality(S) >= 0 THEN S ELSE {}

\* The simple names of the enumerated patterns: one name with every
\* combination of optional flag and type annotation, another one plain.
IdentPats ==
  { Ident(<<"a">>, o, t) : o \in BOOLEAN, t \in OptTypeAnns }
    \cup { Ident(<<"b">>, FALSE, None) }

\* The empty array and object patterns enumerated: with neither optional
\* flag nor type annotation, and with both.
EmptyContainers ==
  {ArrayPat(<<>>, FALSE, None), ObjectPat(<<>>, FALSE, None)}
    \cup { ArrayPat(<<>>, TRUE, t) : t \in TypeAnns }
    \cup { ObjectPat(<<>>, TRUE, t) : t \in TypeAnns }

\* Patterns, array slots, object properties and sequences of them, by
\* number of syntax nodes.
RECURSIVE PatsOfSize(_), ElemSeqs(_), PropSeqs(_)

ElemsOfSize(n) == PatsOfSize(n) \cup (IF n = 1 THEN {None} ELSE {})

PropsOfSize(n) ==
  IF n = 1
  THEN { AssignPatProp(k, v) : k \in Names, v \in {None, DefaultExpr} }
  ELSE Enumerated({ KeyValuePatProp(k, v) :
                    k \in TreeKeys, v \in PatsOfSize(n - 1) })
         \cup Enumerated({ RestPatProp(a) : a \in PatsOfSize(n - 1) })

ElemSeqs(n) ==
  IF n = 0 THEN {<<>>}
  ELSE Enumerated(UNION { Enumerated({ <<e>> \o s : e \in ElemsOfSize(k),
                                                    s \in ElemSeqs(n - k) }) :
                          k \in 1 .. n })

PropSeqs(n) ==
  IF n = 0 THEN {<<>>}
  ELSE Enumerated(UNION { Enumerated({ <<p>> \o s : p \in PropsOfSize(k),
                                                    s \in PropSeqs(n - k) }) :
                          k \in 1 .. n })

PatsOfSize(n) ==
  IF n = 0 THEN {}
  ELSE IF n = 1 THEN Enumerated(IdentPats \cup {ExprPat} \cup EmptyContainers)
  ELSE Enumerated(
         Enumerated({ RestPat(a, t) :
                      a \in PatsOfSize(n - 1), t \in OptTypeAnns })
           \cup Enumerated({ AssignPat(l, DefaultExpr, t) :
                             l \in PatsOfSize(n - 1), t \in OptTypeAnns })
           \cup Enumerated({ ArrayPat(es, o, t) :
                             es \in ElemSeqs(n - 1), o \in BOOLEAN,
                             t \in OptTypeAnns })
           \cup Enumerated({ ObjectPat(ps, o, t) :
                             ps \in PropSeqs(n - 1), o \in BOOLEAN,
                             t \in OptTypeAnns }))

\* The patterns of at most n syntax nodes.
RECURSIVE PatsUpTo(_)
PatsUpTo(n) ==
  IF n = 0 THEN {} ELSE Enumerated(PatsOfSize(n) \cup PatsUpTo(n - 1))

\* The patterns the specification's properties name, beyond MaxNodes.
\* `{ a: [b, ...c] }`
NestedExample ==
  ObjectPat(<<KeyValuePatProp([kind |-> "Ident", sym |-> <<"a">>],
                ArrayPat(<<Ident(<<"b">>, FALSE, None),
                           RestPat(Ident(<<"c">>, FALSE, None), None)>>,
                         FALSE, None))>>,
            FALSE, None)

\* `{ a: [b, <expression>] }`: an unsupported node below supported ones.
NestedIllegalExample ==
  ObjectPat(<<KeyValuePatProp([kind |-> "Ident", sym |-> <<"a">>],
                ArrayPat(<<Ident(<<"b">>, FALSE, None),
                           AssignPat(RestPat(ExprPat, None), DefaultExpr, None)>>,
                         FALSE, None))>>,
            FALSE, None)

\* `{ a, b: x, ...c, a = f() }`
MixedObjectExample ==
  ObjectPat(<<AssignPatProp(<<"a">>, None),
              KeyValuePatProp([kind |-> "Ident", sym |-> <<"b">>],
                              Ident(<<"x">>, FALSE, None)),
              RestPatProp(Ident(<<"c">>, FALSE, None)),
              AssignPatProp(<<"a">>, DefaultExpr)>>,
            TRUE, None)

Examples == {NestedExample, NestedIllegalExample, MixedObjectExample}

Pats == Enumerated(PatsUpTo(MaxNodes) \cup Examples)

-----------------------------------------------------------------------------
(* Property-name resolution.                                               *)

Unavailable ==
  <<"<", "U", "N", "A", "V", "A", "I", "L", "A", "B", "L", "E", ">">>

\* prop_name_to_string taking the text of the key's expression instead of
\* the text of the computed-key node.
prop_name_to_string_expr_span(source, prop_name) ==
  CASE prop_name.kind = "Ident" -> prop_name.sym
    [] prop_name.kind = "Str" -> prop_name.value
    [] prop_name.kind = "Num" -> to_string(prop_name.value)
    [] prop_name.kind = "BigInt" -> to_string(prop_name.value)
    [] prop_name.kind = "Computed" ->
         IF IsSome(source) THEN span_text(source.text, prop_name.expr.span)
         ELSE Unavailable

\* prop_name_to_string reading the span of whatever source is at hand, with
\* an empty name when there is none.
prop_name_to_string_no_sentinel(source, prop_name) ==
  CASE prop_name.kind = "Ident" -> prop_name.sym
    [] prop_name.kind = "Str" -> prop_name.value
    [] prop_name.kind = "Num" -> to_string(prop_name.value)
    [] prop_name.kind = "BigInt" -> to_string(prop_name.value)
    [] prop_name.kind = "Computed" ->
         IF IsSome(source) THEN span_text(source.text, prop_name.span)
         ELSE <<>>

prop_name_to_string(source, prop_name) ==
  CASE prop_name.kind = "Ident" -> prop_name.sym
    [] prop_name.kind = "Str" -> prop_name.value
    [] prop_name.kind = "Num" -> to_string(prop_name.value)
    [] prop_name.kind = "BigInt" -> to_string(prop_name.value)
    [] prop_name.kind = "Computed" ->
         IF IsSome(source) THEN span_text(source.text, prop_name.span)
         ELSE Unavailable

-----------------------------------------------------------------------------
(* The converter.  A panic in a nested call unwinds through every caller,  *)
(* so a converter whose nested conversion panicked yields Panic.           *)

Unsupported == <<"[", "U", "N", "S", "U", "P", "P", "O", "R", "T", "E", "D", "]">>

RECURSIVE pat_to_param_def(_, _)

ident_to_param_def(source, ident) ==
  [kind |-> "Identifier",
   name |-> ident.id.sym,
   optional |-> ident.id.optional,
   ts_type |-> map_ts_type(ident.type_ann)]

\* rest_pat_to_param_def handing back the converted argument unwrapped.
rest_pat_to_param_def_unwrapped(source, rest_pat) ==
  pat_to_param_def(source, rest_pat.arg)

rest_pat_to_param_def(source, rest_pat) ==
  LET arg == pat_to_param_def(source, rest_pat.arg)
  IN  IF IsPanic(arg) THEN Panic
      ELSE [kind |-> "Rest", arg |-> arg,
            ts_type |-> map_ts_type(rest_pat.type_ann)]

object_pat_prop_to_def(source, prop) ==
  CASE prop.kind = "Assign" ->
         [kind |-> "Assign",
          key |-> prop.key.sym,
          value |-> IF IsSome(prop.value) THEN SomeString(Unsupported) ELSE None]
    [] prop.kind = "KeyValue" ->
         LET key == prop_name_to_string(source, prop.key)
             value == pat_to_param_def(source, prop.value)
         IN  IF IsPanic(value) THEN Panic
             ELSE [kind |-> "KeyValue", key |-> key, value |-> value]
    [] prop.kind = "Rest" ->
         LET arg == pat_to_param_def(source, prop.arg)
         IN  IF IsPanic(arg) THEN Panic ELSE [kind |-> "Rest", arg |-> arg]

\* object_pat_to_param_def collecting the properties last to first.
object_pat_to_param_def_reversed(source, object_pat) ==
  LET n == Len(object_pat.props)
      props == [i \in 1 .. n |->
                  object_pat_prop_to_def(source, object_pat.props[n + 1 - i])]
  IN  IF \E i \in 1 .. Len(props) : IsPanic(props[i]) THEN Panic
      ELSE [kind |-> "Object",
            props |-> props,
            optional |-> object_pat.optional,
            ts_type |-> map_ts_type(object_pat.type_ann)]

object_pat_to_param_def(source, object_pat) ==
  LET props == [i \in 1 .. Len(object_pat.props) |->
                  object_pat_prop_to_def(source, object_pat.props[i])]
  IN  IF \E i \in 1 .. Len(props) : IsPanic(props[i]) THEN Panic
      ELSE [kind |-> "Object",
            props |-> props,
            optional |-> object_pat.optional,
            ts_type |-> map_ts_type(object_pat.type_ann)]

array_pat_to_param_def(source, array_pat) ==
  LET elements == [i \in 1 .. Len(array_pat.elems) |->
                     IF IsSome(array_pat.elems[i])
                     THEN pat_to_param_def(source, array_pat.elems[i])
                     ELSE None]
  IN  IF \E i \in 1 .. Len(elements) : IsPanic(elements[i]) THEN Panic
      ELSE [kind |-> "Array",
            elements |-> elements,
            optional |-> array_pat.optional,
            ts_type |-> map_ts_type(array_pat.type_ann)]

assign_pat_to_param_def(source, assign_pat) ==
  LET left == pat_to_param_def(source, assign_pat.left)
  IN  IF IsPanic(left) THEN Panic
      ELSE [kind |-> "Assign",
            left |-> left,
            right |-> Unsupported,
            ts_type |-> map_ts_type(assign_pat.type_ann)]

\* pat_to_param_def without the Pat::Assign arm.
pat_to_param_def_no_assign_arm(source, p) ==
  CASE p.kind = "Ident" -> ident_to_param_def(source, p)
    [] p.kind = "Array" -> array_pat_to_param_def(source, p)
    [] p.kind = "Rest" -> rest_pat_to_param_def(source, p)
    [] p.kind = "Object" -> object_pat_to_param_def(source, p)
    [] OTHER -> Panic

\* pat_to_param_def degrading an unknown pattern kind to a placeholder name
\* instead of panicking.
pat_to_param_def_lenient(source, p) ==
  CASE p.kind = "Ident" -> ident_to_param_def(source, p)
    [] p.kind = "Array" -> array_pat_to_param_def(source, p)
    [] p.kind = "Rest" -> rest_pat_to_param_def(source, p)
    [] p.kind = "Object" -> object_pat_to_param_def(source, p)
    [] p.kind = "Assign" -> assign_pat_to_param_def(source, p)
    [] OTHER -> [kind |-> "Identifier", name |-> Unsupported,
                 optional |-> FALSE, ts_type |-> None]

pat_to_param_def(source, p) ==
  CASE p.kind = "Ident" -> ident_to_param_def(source, p)
    [] p.kind = "Array" -> array_pat_to_param_def(source, p)
    [] p.kind = "Rest" -> rest_pat_to_param_def(source, p)
    [] p.kind = "Object" -> object_pat_to_param_def(source, p)
    [] p.kind = "Assign" -> assign_pat_to_param_def(source, p)
    [] OTHER -> Panic

\* TsFnParam has the four variants Ident, Array, Rest and Object only.
IsTsFnParam(p) == p.kind \in {"Ident", "Array", "Rest", "Object"}

ts_fn_param_to_param_def(source, ts_fn_param) ==
  CASE ts_fn_param.kind = "Ident" -> ident_to_param_def(source, ts_fn_param)
    [] ts_fn_param.kind = "Array" -> array_pat_to_param_def(source, ts_fn_param)
    [] ts_fn_param.kind = "Rest" -> rest_pat_to_param_def(source, ts_fn_param)
    [] ts_fn_param.kind = "Object" ->
         object_pat_to_param_def(source, ts_fn_param)

-----------------------------------------------------------------------------
(* The renderer: impl Display for ParamDef and for ObjectPatPropDef.       *)

\* `if let Some(ts_type) = ts_type { write!(f, ": {}", ts_type)?; }`
ts_type_suffix(ts_type) ==
  IF IsSome(ts_type) THEN <<":", " ">> \o ts_type_fmt(ts_type) ELSE <<>>

RECURSIVE ParamDef_fmt(_)

\* The Array arm with a separator written only before a present element.
RECURSIVE fmt_array_tail_skipping_holes(_)
fmt_array_tail_skipping_holes(elements) ==
  IF Len(elements) = 0 THEN <<>>
  ELSE (IF IsSome(elements[1])
        THEN <<",", " ">> \o ParamDef_fmt(elements[1])
        ELSE <<>>)
         \o fmt_array_tail_skipping_holes(Tail(elements))

\* The loop over &elements[1..] of the Array arm.
RECURSIVE fmt_array_tail(_)
fmt_array_tail(elements) ==
  IF Len(elements) = 0 THEN <<>>
  ELSE <<",", " ">>
         \o (IF IsSome(elements[1]) THEN ParamDef_fmt(elements[1]) ELSE <<>>)
         \o fmt_array_tail(Tail(elements))

ObjectPatPropDef_fmt(prop) ==
  CASE prop.kind = "KeyValue" -> prop.key
    [] prop.kind = "Assign" ->
         IF IsSome(prop.value) THEN prop.key ELSE prop.key
    [] prop.kind = "Rest" -> <<".", ".", ".">> \o ParamDef_fmt(prop.arg)

fmt_Array(d) ==
  <<"[">>
    \o (IF Len(d.elements) # 0
        THEN (IF IsSome(d.elements[1]) THEN ParamDef_fmt(d.elements[1])
              ELSE <<>>)
               \o fmt_array_tail(Tail(d.elements))
        ELSE <<>>)
    \o <<"]">>
    \o display_optional(d.optional)
    \o ts_type_suffix(d.ts_type)

\* The Assign arm with the line `write!(f, " = {}", right)?;` in force.
fmt_Assign_with_default(d) ==
  ParamDef_fmt(d.left) \o ts_type_suffix(d.ts_type)
    \o <<" ", "=", " ">> \o d.right

fmt_Assign(d) == ParamDef_fmt(d.left) \o ts_type_suffix(d.ts_type)

\* The Identifier arm with the optional marker after the type suffix.
fmt_Identifier_marker_last(d) ==
  d.name \o ts_type_suffix(d.ts_type) \o display_optional(d.optional)

fmt_Identifier(d) ==
  d.name \o display_optional(d.optional) \o ts_type_suffix(d.ts_type)

fmt_Object(d) ==
  <<"{">>
    \o SliceDisplayer([i \in 1 .. Len(d.props) |->
                         ObjectPatPropDef_fmt(d.props[i])],
                      <<",", " ">>)
    \o <<"}">>
    \o display_optional(d.optional)
    \o ts_type_suffix(d.ts_type)

fmt_Rest(d) ==
  <<".", ".", ".">> \o ParamDef_fmt(d.arg) \o ts_type_suffix(d.ts_type)

ParamDef_fmt(d) ==
  CASE d.kind = "Array" -> fmt_Array(d)
    [] d.kind = "Assign" -> fmt_Assign(d)
    [] d.kind = "Identifier" -> fmt_Identifier(d)
    [] d.kind = "Object" -> fmt_Object(d)
    [] d.kind = "Rest" -> fmt_Rest(d)

-----------------------------------------------------------------------------
(* The structured form: #[derive(Serialize, Deserialize)] with             *)
(* #[serde(tag = "kind")] and #[serde(rename_all = "camelCase")], as a     *)
(* JSON document.                                                          *)

JNull == [json |-> "null"]

JBool(b) == [json |-> "bool", value |-> b]

JString(s) == [json |-> "string", value |-> s]

JArray(items) == [json |-> "array", items |-> items]

JObject(fields) == [json |-> "object", fields |-> fields]

\* A failed deserialization (serde's Err).
DeError == [kind |-> "Error"]

IsDeError(x) == x.kind = "Error"

\* The serde form of crate::ts_type::TsTypeDef, opaque here.
TsTypeDef_serialize(t) == JObject([repr |-> JString(t.repr)])

TsTypeDef_deserialize(j) ==
  IF j.json = "object" /\ DOMAIN j.fields = {"repr"}
  THEN [kind |-> "TsTypeDef", repr |-> j.fields.repr.value]
  ELSE DeError

\* Option<TsTypeDef>
ts_type_serialize(ts_type) ==
  IF IsSome(ts_type) THEN TsTypeDef_serialize(ts_type) ELSE JNull

ts_type_deserialize(j) ==
  IF j.json = "null" THEN None ELSE TsTypeDef_deserialize(j)

RECURSIVE ParamDef_serialize(_), ParamDef_deserialize(_)

\* Vec<Option<ParamDef>> written without its absent elements.
serialize_elements_skipping_none(elements) ==
  JArray([i \in 1 .. Len(SelectSeq(elements, IsSome)) |->
            ParamDef_serialize(SelectSeq(elements, IsSome)[i])])

\* Vec<Option<ParamDef>>: an array with null for an absent element.
serialize_elements(elements) ==
  JArray([i \in 1 .. Len(elements) |->
            IF IsSome(elements[i]) THEN ParamDef_serialize(elements[i])
            ELSE JNull])

ObjectPatPropDef_serialize(prop) ==
  CASE prop.kind = "Assign" ->
         JObject([kind |-> JString(<<"assign">>),
                  key |-> JString(prop.key),
                  value |-> IF IsSome(prop.value) THEN JString(prop.value.chars)
                            ELSE JNull])
    [] prop.kind = "KeyValue" ->
         JObject([kind |-> JString(<<"keyValue">>),
                  key |-> JString(prop.key),
                  value |-> ParamDef_serialize(prop.value)])
    [] prop.kind = "Rest" ->
         JObject([kind |-> JString(<<"rest">>),
                  arg |-> ParamDef_serialize(prop.arg)])

ParamDef_serialize(d) ==
  CASE d.kind = "Array" ->
         JObject([kind |-> JString(<<"array">>),
                  elements |-> serialize_elements(d.elements),
                  optional |-> JBool(d.optional),
                  tsType |-> ts_type_serialize(d.ts_type)])
    [] d.kind = "Assign" ->
         JObject([kind |-> JString(<<"assign">>),
                  left |-> ParamDef_serialize(d.left),
                  right |-> JString(d.right),
                  tsType |-> ts_type_serialize(d.ts_type)])
    [] d.kind = "Identifier" ->
         JObject([kind |-> JString(<<"identifier">>),
                  name |-> JString(d.name),
                  optional |-> JBool(d.optional),
                  tsType |-> ts_type_serialize(d.ts_type)])
    [] d.kind = "Object" ->
         JObject([kind |-> JString(<<"object">>),
                  props |->
                    JArray([i \in 1 .. Len(d.props) |->
                              ObjectPatPropDef_serialize(d.props[i])]),
                  optional |-> JBool(d.optional),
                  tsType |-> ts_type_serialize(d.ts_type)])
    [] d.kind = "Rest" ->
         JObject([kind |-> JString(<<"rest">>),
                  arg |-> ParamDef_serialize(d.arg),
                  tsType |-> ts_type_serialize(d.ts_type)])

\* The variant tag of an internally tagged document, <<>> if there is none.
tag_of(j) ==
  IF j.json = "object" /\ "kind" \in DOMAIN j.fields
       /\ j.fields.kind.json = "string"
  THEN j.fields.kind.value
  ELSE <<>>

ObjectPatPropDef_deserialize(j) ==
  LET tag == tag_of(j)
      f == j.fields
  IN  CASE tag = <<"assign">> /\ {"key", "value"} \subseteq DOMAIN f ->
             [kind |-> "Assign",
              key |-> f.key.value,
              value |-> IF f.value.json = "null" THEN None
                        ELSE SomeString(f.value.value)]
        [] tag = <<"keyValue">> /\ {"key", "value"} \subseteq DOMAIN f ->
             LET value == ParamDef_deserialize(f.value)
             IN  IF IsDeError(value) THEN DeError
                 ELSE [kind |-> "KeyValue", key |-> f.key.value, value |-> value]
        [] tag = <<"rest">> /\ {"arg"} \subseteq DOMAIN f ->
             LET arg == ParamDef_deserialize(f.arg)
             IN  IF IsDeError(arg) THEN DeError
                 ELSE [kind |-> "Rest", arg |-> arg]
        [] OTHER -> DeError

ParamDef_deserialize(j) ==
  LET tag == tag_of(j)
      f == j.fields
  IN  CASE tag = <<"array">>
             /\ {"elements", "optional", "tsType"} \subseteq DOMAIN f ->
             LET elements == [i \in 1 .. Len(f.elements.items) |->
                                IF f.elements.items[i].json = "null" THEN None
                                ELSE ParamDef_deserialize(f.elements.items[i])]
                 ts_type == ts_type_deserialize(f.tsType)
             IN  IF \/ \E i \in 1 .. Len(elements) : IsDeError(elements[i])
                    \/ IsDeError(ts_type)
                 THEN DeError
                 ELSE [kind |-> "Array", elements |-> elements,
                       optional |-> f.optional.value, ts_type |-> ts_type]
        [] tag = <<"assign">>
             /\ {"left", "right", "tsType"} \subseteq DOMAIN f ->
             LET left == ParamDef_deserialize(f.left)
                 ts_type == ts_type_deserialize(f.tsType)
             IN  IF IsDeError(left) \/ IsDeError(ts_type) THEN DeError
                 ELSE [kind |-> "Assign", left |-> left,
                       right |-> f.right.value, ts_type |-> ts_type]
        [] tag = <<"identifier">>
             /\ {"name", "optional", "tsType"} \subseteq DOMAIN f ->
             LET ts_type == ts_type_deserialize(f.tsType)
             IN  IF IsDeError(ts_type) THEN DeError
                 ELSE [kind |-> "Identifier", name |-> f.name.value,
                       optional |-> f.optional.value, ts_type |-> ts_type]
        [] tag = <<"object">>
             /\ {"props", "optional", "tsType"} \subseteq DOMAIN f ->
             LET props == [i \in 1 .. Len(f.props.items) |->
                             ObjectPatPropDef_deserialize(f.props.items[i])]
                 ts_type == ts_type_deserialize(f.tsType)
             IN  IF \/ \E i \in 1 .. Len(props) : IsDeError(props[i])
                    \/ IsDeError(ts_type)
                 THEN DeError
                 ELSE [kind |-> "Object", props |-> props,
                       optional |-> f.optional.value, ts_type |-> ts_type]
        [] tag = <<"rest">> /\ {"arg", "tsType"} \subseteq DOMAIN f ->
             LET arg == ParamDef_deserialize(f.arg)
                 ts_type == ts_type_deserialize(f.tsType)
             IN  IF IsDeError(arg) \/ IsDeError(ts_type) THEN DeError
                 ELSE [kind |-> "Rest", arg |-> arg, ts_type |-> ts_type]
        [] OTHER -> DeError

-----------------------------------------------------------------------------
(* The state machine: a caller converts a pattern, renders the descriptor, *)
(* serializes it and reads it back; or resolves one property key.               *)

Init ==
  /\ \/ pc = "start" /\ pat \in Pats /\ name_arg = None
     \/ pc = "prop_start" /\ pat = None /\ name_arg \in PropNames
  /\ parsed_source = None
  /\ def = None
  /\ rendered = <<>>
  /\ doc = JNull
  /\ def2 = None
  /\ name_str = <<>>

\* A call of pat_to_param_def(parsed_source, &pat).
PatToParamDef ==
  /\ pc = "start"
  /\ \E source \in Sources :
       /\ parsed_source' = source
       /\ def' = pat_to_param_def(source, pat)
  /\ pc' = IF IsPanic(def') THEN "panicked" ELSE "converted"
  /\ UNCHANGED <<pat, name_arg, rendered, doc, def2, name_str>>

\* A call of ts_fn_param_to_param_def(parsed_source, &pat), which the type
\* TsFnParam restricts to its four variants.
TsFnParamToParamDef ==
  /\ pc = "start"
  /\ IsTsFnParam(pat)
  /\ \E source \in Sources :
       /\ parsed_source' = source
       /\ def' = ts_fn_param_to_param_def(source, pat)
  /\ pc' = IF IsPanic(def') THEN "panicked" ELSE "converted"
  /\ UNCHANGED <<pat, name_arg, rendered, doc, def2, name_str>>

\* format!("{}", def)
Display ==
  /\ pc = "converted"
  /\ rendered' = ParamDef_fmt(def)
  /\ pc' = "rendered"
  /\ UNCHANGED <<pat, name_arg, parsed_source, def, doc, def2, name_str>>

\* serde_json::to_value(&def)
Serialize ==
  /\ pc = "rendered"
  /\ doc' = ParamDef_serialize(def)
  /\ pc' = "serialized"
  /\ UNCHANGED <<pat, name_arg, parsed_source, def, rendered, def2, name_str>>

\* serde_json::from_value::<ParamDef>(doc)
Deserialize ==
  /\ pc = "serialized"
  /\ def2' = ParamDef_deserialize(doc)
  /\ pc' = "deserialized"
  /\ UNCHANGED <<pat, name_arg, parsed_source, def, rendered, doc, name_str>>

\* A call of prop_name_to_string(parsed_source, &name_arg).
PropNameToString ==
  /\ pc = "prop_start"
  /\ \E source \in Sources :
       /\ parsed_source' = source
       /\ name_str' = prop_name_to_string(source, name_arg)
  /\ pc' = "prop_done"
  /\ UNCHANGED <<pat, name_arg, def, rendered, doc, def2>>

Next ==
  \/ PatToParamDef
  \/ TsFnParamToParamDef
  \/ Display
  \/ Serialize
  \/ Deserialize
  \/ PropNameToString

Spec == Init /\ [][Next]_vars

-----------------------------------------------------------------------------
(* Vocabulary of the properties.                                           *)

Converted == pc \in {"converted", "rendered", "serialized", "deserialized"}

Rendered == pc \in {"rendered", "serialized", "deserialized"}

IsString(s) == \A i \in 1 .. Len(s) : s[i] \in STRING

\* sub occurs in s as a contiguous substring.
Contains(s, sub) ==
  \E i \in 1 .. (Len(s) + 1) :
    /\ i + Len(sub) - 1 <= Len(s)
    /\ SubSeq(s, i, i + Len(sub) - 1) = sub

\* Number of occurrences of the character c in s.
Count(s, c) == Cardinality({ i \in 1 .. Len(s) : s[i] = c })

\* Every node of the pattern is of one of the five supported kinds.
RECURSIVE Supported(_)
Supported(p) ==
  CASE p.kind = "Ident" -> TRUE
    [] p.kind = "Array" ->
         \A i \in 1 .. Len(p.elems) :
           IsSome(p.elems[i]) => Supported(p.elems[i])
    [] p.kind = "Rest" -> Supported(p.arg)
    [] p.kind = "Object" ->
         \A i \in 1 .. Len(p.props) :
           (CASE p.props[i].kind = "Assign" -> TRUE
              [] p.props[i].kind = "KeyValue" -> Supported(p.props[i].value)
              [] p.props[i].kind = "Rest" -> Supported(p.props[i].arg))
    [] p.kind = "Assign" -> Supported(p.left)
    [] OTHER -> FALSE

\* Every ParamDef node of a descriptor tree, the root included.
RECURSIVE SubDefs(_)
SubDefs(d) ==
  {d} \cup
  CASE d.kind = "Array" ->
         UNION { IF IsSome(d.elements[i]) THEN SubDefs(d.elements[i]) ELSE {} :
                 i \in 1 .. Len(d.elements) }
    [] d.kind = "Assign" -> SubDefs(d.left)
    [] d.kind = "Identifier" -> {}
    [] d.kind = "Object" ->
         UNION { CASE d.props[i].kind = "Assign" -> {}
                   [] d.props[i].kind = "KeyValue" -> SubDefs(d.props[i].value)
                   [] d.props[i].kind = "Rest" -> SubDefs(d.props[i].arg) :
                 i \in 1 .. Len(d.props) }
    [] d.kind = "Rest" -> SubDefs(d.arg)

\* Every ObjectPatPropDef of a descriptor tree.
PropDefs(d) ==
  UNION { { n.props[i] : i \in 1 .. Len(n.props) } :
          n \in { m \in SubDefs(d) : m.kind = "Object" } }

-----------------------------------------------------------------------------
(* Property-name resolution: C1, C5.                                       *)

\* The KeyValue properties of the converted pattern, when it is an object
\* pattern, as indices into pat.props and def.props.
KeyValueProps ==
  IF Converted /\ pat.kind = "Object"
  THEN { i \in 1 .. Len(pat.props) : pat.props[i].kind = "KeyValue" }
  ELSE {}

\* C1 as stated: a computed key with a source-text handle resolves to the
\* text of the key expression alone, without the enclosing brackets
\* (`[1+1]` yields `1+1`).
C1_ExpressionTextAlone ==
  /\ (pc = "prop_done" /\ name_arg.kind = "Computed" /\ IsSome(parsed_source))
       => name_str = span_text(parsed_source.text, name_arg.expr.span)
  /\ \A i \in KeyValueProps :
       (pat.props[i].key.kind = "Computed" /\ IsSome(parsed_source))
         => def.props[i].key
              = span_text(parsed_source.text, pat.props[i].key.expr.span)

\* C1, amended: a computed key with a source-text handle resolves to the
\* exact source text of the computed-key node, which is the text of the key
\* expression inside its enclosing brackets (`[1+1]` yields `[1+1]`); it is
\* never an evaluation of the expression.
C1_ComputedKeyNodeText ==
  /\ (pc = "prop_done" /\ name_arg.kind = "Computed" /\ IsSome(parsed_source))
       => /\ name_str = span_text(parsed_source.text, name_arg.span)
          /\ name_str
               = <<"[">> \o span_text(parsed_source.text, name_arg.expr.span)
                   \o <<"]">>
  /\ \A i \in KeyValueProps :
       (pat.props[i].key.kind = "Computed" /\ IsSome(parsed_source))
         => def.props[i].key
              = <<"[">>
                  \o span_text(parsed_source.text, pat.props[i].key.expr.span)
                  \o <<"]">>

\* The key written `[1+1]` has been resolved, with the source at hand.
C1_Witness ==
  /\ pc = "prop_done"
  /\ name_arg.kind = "Computed"
  /\ IsSome(parsed_source)
  /\ span_text(parsed_source.text, name_arg.expr.span) = <<"1", "+", "1">>
  /\ name_str = <<"[", "1", "+", "1", "]">>

\* C5: prop_name_to_string returns a string for a key of each of the five
\* kinds, with or without a source-text handle; a computed key without a
\* source handle resolves to exactly `<UNAVAILABLE>`, whatever its expression.
C5_NameResolutionTotal ==
  /\ pc = "prop_done"
       => /\ name_arg.kind \in {"Ident", "Str", "Num", "BigInt", "Computed"}
          /\ IsString(name_str)
          /\ (name_arg.kind = "Computed" /\ ~IsSome(parsed_source))
               => name_str = <<"<", "U", "N", "A", "V", "A", "I", "L", "A",
                               "B", "L", "E", ">">>
          /\ (name_arg.kind = "Num" /\ name_arg.value = 10)
               => name_str = <<"1", "0">>
  /\ \A i \in KeyValueProps :
       /\ IsString(def.props[i].key)
       /\ (pat.props[i].key.kind = "Computed" /\ ~IsSome(parsed_source))
            => def.props[i].key
                 = <<"<", "U", "N", "A", "V", "A", "I", "L", "A", "B", "L",
                     "E", ">">>

\* A computed key other than `[1+1]` has been resolved without a source
\* handle, to the sentinel.
C5_Witness ==
  /\ pc = "prop_done"
  /\ name_arg.kind = "Computed"
  /\ ~IsSome(parsed_source)
  /\ span_text(SourceText, name_arg.expr.span) = <<"k">>
  /\ Len(name_str) = Len(Unavailable)

-----------------------------------------------------------------------------
(* Array patterns: C2.                                                     *)

\* The renderings of the slots of an Array descriptor, an absent slot
\* rendering as the empty string.
SlotTexts(d) ==
  [i \in 1 .. Len(d.elements) |->
     IF IsSome(d.elements[i]) THEN ParamDef_fmt(d.elements[i]) ELSE <<>>]

\* `[ , b]`
ElidedExample == ArrayPat(<<None, Ident(<<"b">>, FALSE, None)>>, FALSE, None)

\* C2: an array pattern converts to an Array descriptor with as many
\* elements as the pattern has slots, absent exactly where a slot is elided,
\* and renders with one `, ` between every two consecutive slots, an absent
\* slot contributing nothing; `[ , b]` becomes [absent, Identifier b] and
\* renders as `[, b]`.
C2_ElidedSlotsPreserved ==
  (Converted /\ pat.kind = "Array")
    => /\ def.kind = "Array"
       /\ Len(def.elements) = Len(pat.elems)
       /\ \A i \in 1 .. Len(pat.elems) :
            IsSome(def.elements[i]) <=> IsSome(pat.elems[i])
       /\ Rendered
            => /\ rendered
                 = <<"[">> \o SliceDisplayer(SlotTexts(def), <<",", " ">>)
                     \o <<"]">> \o display_optional(def.optional)
                     \o ts_type_suffix(def.ts_type)
               /\ (Len(def.elements) > 0 /\ \A i \in 1 .. Len(def.elements) :
                                              ~IsSome(def.elements[i]))
                    => Count(rendered, ",") = Len(def.elements) - 1
       /\ pat = ElidedExample
            => /\ def.elements
                 = <<None, [kind |-> "Identifier", name |-> <<"b">>,
                            optional |-> FALSE, ts_type |-> None]>>
               /\ Rendered => rendered = <<"[", ",", " ", "b", "]">>

\* `[ , b]` has been converted and rendered.
C2_Witness ==
  /\ pc = "rendered"
  /\ pat = ElidedExample
  /\ ~IsSome(def.elements[1])
  /\ rendered = <<"[", ",", " ", "b", "]">>

-----------------------------------------------------------------------------
(* Totality on supported patterns and failure on the others: C3, C10.      *)

\* C3: for a pattern whose nodes are all of the five supported kinds,
\* conversion does not panic and yields one descriptor, and rendering that
\* descriptor yields a finite string.
C3_SupportedNeverPanics ==
  (pat.kind # "None" /\ Supported(pat))
    => /\ pc # "panicked"
       /\ Converted
            => def.kind \in {"Array", "Assign", "Identifier", "Object", "Rest"}
       /\ Rendered => (IsString(rendered) /\ Len(rendered) \in Nat
                         /\ Len(rendered) > 0)

\* A pattern nesting an array, a rest and a default below an object has
\* been converted and rendered.
C3_Witness ==
  /\ pc = "rendered"
  /\ pat = NestedExample
  /\ Len(rendered) > 0

\* C10: when the pattern holds a node that is not of the five supported
\* kinds, at the top or nested at any depth, and through either entry
\* point, the conversion panics and returns no descriptor.
C10_IllegalInputIsFatal ==
  (pat.kind # "None" /\ ~Supported(pat) /\ pc # "start")
    => /\ pc = "panicked"
       /\ def = Panic
       /\ rendered = <<>>

\* The illegal node sits below a default, a rest, an array element and an
\* object property value, and the conversion has panicked.
C10_Witness ==
  /\ pc = "panicked"
  /\ pat = NestedIllegalExample
  /\ IsTsFnParam(pat)
  /\ def = Panic

-----------------------------------------------------------------------------
(* Defaults: C4.                                                           *)

\* The descriptor with every stored default text replaced by other text.
RECURSIVE Scrub(_)
ScrubProp(prop) ==
  CASE prop.kind = "Assign" ->
         [prop EXCEPT !.value = IF IsSome(prop.value)
                                THEN SomeString(<<"#">>) ELSE None]
    [] prop.kind = "KeyValue" -> [prop EXCEPT !.value = Scrub(prop.value)]
    [] prop.kind = "Rest" -> [prop EXCEPT !.arg = Scrub(prop.arg)]

Scrub(d) ==
  CASE d.kind = "Array" ->
         [d EXCEPT !.elements =
            [i \in 1 .. Len(d.elements) |->
               IF IsSome(d.elements[i]) THEN Scrub(d.elements[i]) ELSE None]]
    [] d.kind = "Assign" -> [d EXCEPT !.left = Scrub(d.left), !.right = <<"#">>]
    [] d.kind = "Identifier" -> d
    [] d.kind = "Object" ->
         [d EXCEPT !.props = [i \in 1 .. Len(d.props) |-> ScrubProp(d.props[i])]]
    [] d.kind = "Rest" -> [d EXCEPT !.arg = Scrub(d.arg)]

\* C4: in every converted descriptor an Assign node renders as its target
\* followed by its own type suffix, a shorthand Assign property renders as
\* its key with or without a default, and neither the stored placeholder
\* nor the default expression shows in the rendering, which does not depend
\* on the stored default text.
C4_DefaultNeverRendered ==
  Converted
    => /\ \A n \in SubDefs(def) :
            n.kind = "Assign"
              => ParamDef_fmt(n)
                   = ParamDef_fmt(n.left)
                       \o (IF IsSome(n.ts_type) THEN <<":", " ">> \o n.ts_type.repr
                           ELSE <<>>)
       /\ \A q \in PropDefs(def) :
            q.kind = "Assign" => ObjectPatPropDef_fmt(q) = q.key
       /\ ParamDef_fmt(Scrub(def)) = ParamDef_fmt(def)
       /\ Rendered
            => /\ ~Contains(rendered, Unsupported)
               /\ ~Contains(rendered, DefaultExpr.text)
               /\ Count(rendered, "=") = 0

\* `a = f()` with a type annotation, and a shorthand property with a
\* default, have been rendered.
C4_Witness ==
  /\ pc = "rendered"
  /\ \/ /\ pat = AssignPat(Ident(<<"a">>, FALSE, None), DefaultExpr,
                           [kind |-> "TsTypeAnn", type_name |-> <<"T">>])
        /\ def.right = Unsupported
        /\ rendered = <<"a", ":", " ", "T">>
     \/ /\ pat = MixedObjectExample
        /\ IsSome(def.props[4].value)
        /\ rendered = <<"{", "a", ",", " ", "b", ",", " ", ".", ".", ".", "c",
                        ",", " ", "a", "}", "?">>

-----------------------------------------------------------------------------
(* Structure: C6, C7.                                                      *)

\* The descriptor d has the variant and the children that the pattern p
\* calls for, at every depth.
RECURSIVE Mirrors(_, _)
MirrorsProp(q, e) ==
  CASE q.kind = "Assign" ->
         /\ e.kind = "Assign"
         /\ e.key = q.key.sym
         /\ IsSome(e.value) <=> IsSome(q.value)
    [] q.kind = "KeyValue" -> e.kind = "KeyValue" /\ Mirrors(q.value, e.value)
    [] q.kind = "Rest" -> e.kind = "Rest" /\ Mirrors(q.arg, e.arg)

TypeMirrors(p, d) ==
  IF IsSome(p.type_ann)
  THEN IsSome(d.ts_type) /\ d.ts_type.repr = p.type_ann.type_name
  ELSE ~IsSome(d.ts_type)

Mirrors(p, d) ==
  CASE p.kind = "Ident" ->
         /\ d.kind = "Identifier"
         /\ d.name = p.id.sym
         /\ d.optional = p.id.optional
         /\ TypeMirrors(p, d)
    [] p.kind = "Array" ->
         /\ d.kind = "Array"
         /\ Len(d.elements) = Len(p.elems)
         /\ \A i \in 1 .. Len(p.elems) :
              IF IsSome(p.elems[i])
              THEN IsSome(d.elements[i]) /\ Mirrors(p.elems[i], d.elements[i])
              ELSE ~IsSome(d.elements[i])
         /\ d.optional = p.optional
         /\ TypeMirrors(p, d)
    [] p.kind = "Object" ->
         /\ d.kind = "Object"
         /\ Len(d.props) = Len(p.props)
         /\ \A i \in 1 .. Len(p.props) : MirrorsProp(p.props[i], d.props[i])
         /\ d.optional = p.optional
         /\ TypeMirrors(p, d)
    [] p.kind = "Rest" ->
         /\ d.kind = "Rest"
         /\ Mirrors(p.arg, d.arg)
         /\ TypeMirrors(p, d)
    [] p.kind = "Assign" ->
         /\ d.kind = "Assign"
         /\ Mirrors(p.left, d.left)
         /\ TypeMirrors(p, d)
    [] OTHER -> FALSE

PlainIdentifier(name) ==
  [kind |-> "Identifier", name |-> name, optional |-> FALSE, ts_type |-> None]

\* C6: an object pattern with n properties converts to an Object
\* descriptor with n properties, the i-th being the conversion of the i-th
\* source property (kinds and keys in declaration order, duplicate keys
\* kept), and renders them in that order, joined by `, `, between braces.
C6_PropertyOrderPreserved ==
  (Converted /\ pat.kind = "Object")
    => /\ def.kind = "Object"
       /\ Len(def.props) = Len(pat.props)
       /\ \A i \in 1 .. Len(pat.props) :
            /\ def.props[i].kind = pat.props[i].kind
            /\ MirrorsProp(pat.props[i], def.props[i])
            /\ pat.props[i].kind = "KeyValue"
                 => def.props[i].key
                      = prop_name_to_string(parsed_source, pat.props[i].key)
       /\ Rendered
            => rendered
                 = <<"{">>
                     \o SliceDisplayer(
                          [i \in 1 .. Len(def.props) |->
                             CASE def.props[i].kind = "Rest" ->
                                    <<".", ".", ".">>
                                      \o ParamDef_fmt(def.props[i].arg)
                               [] OTHER -> def.props[i].key],
                          <<",", " ">>)
                     \o <<"}">>
                     \o (IF def.optional THEN <<"?">> ELSE <<>>)
                     \o ts_type_suffix(def.ts_type)
       /\ (Rendered /\ pat = MixedObjectExample)
            => rendered = <<"{", "a", ",", " ", "b", ",", " ", ".", ".", ".",
                            "c", ",", " ", "a", "}", "?">>

\* An object pattern mixing shorthand, key-value and rest properties, one
\* key twice, has been converted and rendered.
C6_Witness ==
  /\ pc = "rendered"
  /\ pat = MixedObjectExample
  /\ Len(def.props) = Len(pat.props)
  /\ def.props[1].key = def.props[4].key
  /\ def.props[2].kind = "KeyValue"
  /\ def.props[3].kind = "Rest"

\* C7: conversion maps every pattern node to the descriptor of the
\* corresponding variant, its children being the conversions of the node's
\* children, at every depth; `{ a: [b, ...c] }` becomes an Object whose one
\* KeyValue("a") holds an Array of Identifier("b") and Rest(Identifier("c")).
C7_StructurePreserved ==
  Converted
    => /\ Mirrors(pat, def)
       /\ pat = NestedExample
            => def = [kind |-> "Object",
                      props |->
                        <<[kind |-> "KeyValue",
                           key |-> <<"a">>,
                           value |->
                             [kind |-> "Array",
                              elements |->
                                <<PlainIdentifier(<<"b">>),
                                  [kind |-> "Rest",
                                   arg |-> PlainIdentifier(<<"c">>),
                                   ts_type |-> None]>>,
                              optional |-> FALSE,
                              ts_type |-> None]]>>,
                      optional |-> FALSE,
                      ts_type |-> None]

\* `{ a: [b, ...c] }` has been converted.
C7_Witness ==
  /\ pc = "converted"
  /\ pat = NestedExample
  /\ def.props[1].value.elements[2].kind = "Rest"

-----------------------------------------------------------------------------
(* The structured form: C8.                                                *)

\* C8: a descriptor serialized as a document tagged by `kind` and
\* deserialized again renders to the same string as the original.
C8_RoundTripRendersSame ==
  pc = "deserialized"
    => /\ ~IsDeError(def2)
       /\ tag_of(doc) \in {<<"array">>, <<"assign">>, <<"identifier">>,
                           <<"object">>, <<"rest">>}
       /\ ParamDef_fmt(def2) = rendered

\* An array with an elided slot has been through the round trip.
C8_Witness ==
  /\ pc = "deserialized"
  /\ pat = ElidedExample
  /\ doc.fields.elements.items[1] = JNull
  /\ def2.kind = "Array"

-----------------------------------------------------------------------------
(* The optional marker: C9.                                                *)

\* The rendering of a node's name or bracketed part alone.
Body(n) ==
  IF n.kind = "Identifier" THEN n.name
  ELSE ParamDef_fmt([n EXCEPT !.optional = FALSE, !.ts_type = None])

\* `x?`
OptionalExample == Ident(<<"a">>, TRUE, None)

\* C9: an Identifier, Array or Object node renders one `?` right after its
\* name or closing bracket and before its type suffix exactly when its
\* optional flag is set; a Rest renders as `...`, its argument and its type
\* suffix, and an Assign as its target and its type suffix, with no marker
\* of their own; an optional simple name renders with one `?` and no rest
\* or default marker.
C9_OptionalMarker ==
  Converted
    => /\ \A n \in SubDefs(def) :
            LET text == ParamDef_fmt(n)
                suffix == ts_type_suffix(n.ts_type)
            IN  CASE n.kind \in {"Identifier", "Array", "Object"} ->
                       /\ text = Body(n) \o (IF n.optional THEN <<"?">> ELSE <<>>)
                                   \o suffix
                       /\ n.kind = "Array" => Body(n)[Len(Body(n))] = "]"
                       /\ n.kind = "Object" => Body(n)[Len(Body(n))] = "}"
                  [] n.kind = "Rest" ->
                       text = <<".", ".", ".">> \o ParamDef_fmt(n.arg) \o suffix
                  [] n.kind = "Assign" -> text = ParamDef_fmt(n.left) \o suffix
       /\ (Rendered /\ pat.kind = "Ident")
            => /\ Count(rendered, "?") = (IF pat.id.optional THEN 1 ELSE 0)
               /\ Count(rendered, ".") = 0
               /\ Count(rendered, "=") = 0
       /\ (Rendered /\ pat = OptionalExample) => rendered = <<"a", "?">>

\* The optional simple name has been rendered.
C9_Witness ==
  /\ pc = "rendered"
  /\ pat = OptionalExample
  /\ def.optional
  /\ Count(rendered, "?") = 1

====
